---------------------------- MODULE Spec2Model ----------------------------
(***************************************************************************)
(* Business-card pipeline: src/output_cleaner.py (OutputCleaner) and       *)
(* src/main.py (BusinessCardProcessor.process_business_card).              *)
(*                                                                         *)
(* Text is a sequence of characters; a character is a one-element TLA+     *)
(* string.  A Hangul syllable is one character and is written by its       *)
(* romanisation ("H_jeon" is U+C804), because the module is ASCII.         *)
(* The backtick is written "GRAVE": the lexer takes no backtick.           *)
(* Python values are tagged records: None, str, int, bool, list, dict.     *)
(* A dict is the sequence of its <<key, value>> pairs in insertion order.  *)
(***************************************************************************)
EXTENDS Integers, Sequences, FiniteSets, TLC

VARIABLES pc, arg, ret, ocr_result, classification_result, json_result,
          cleaned_data, final_result, result, calls

vars == <<pc, arg, ret, ocr_result, classification_result, json_result,
          cleaned_data, final_result, result, calls>>

---------------------------------------------------------------------------
(* Bounds of the inputs.                                                   *)

MaxGenLen == 3

MaxPhoneLen == 3

MaxEmailLen == 6

---------------------------------------------------------------------------
(* Python values.                                                          *)

PyNone == [t |-> "None"]

PyStr(s) == [t |-> "str", s |-> s]

PyInt(n) == [t |-> "int", n |-> n]

PyBool(b) == [t |-> "bool", b |-> b]

PyList(a) == [t |-> "list", a |-> a]

PyDict(o) == [t |-> "dict", o |-> o]

\* the mark of a key a dict does not hold
NoKey == [t |-> "absent"]

Range(s) == {s[i] : i \in 1..Len(s)}

\* the value of a statement that returns v, and of one that raises e
Return(v) == [exc |-> "none", value |-> v]

Raise(e) == [exc |-> e, value |-> PyNone]

\* key in d, d[key] and d[key] = v on the pairs of a dict
DictHas(o, k) == \E i \in 1..Len(o) : o[i][1] = k

DictGet(o, k) == o[CHOOSE i \in 1..Len(o) : o[i][1] = k][2]

DictPut(o, k, v) ==
    IF DictHas(o, k)
    THEN [i \in 1..Len(o) |-> IF o[i][1] = k THEN <<k, v>> ELSE o[i]]
    ELSE Append(o, <<k, v>>)

\* bool(value), the test of "if value:"
Truthy(v) ==
    CASE v.t = "None" -> FALSE
      [] v.t = "str"  -> v.s # <<>>
      [] v.t = "int"  -> v.n # 0
      [] v.t = "bool" -> v.b
      [] v.t = "list" -> v.a # <<>>
      [] v.t = "dict" -> v.o # <<>>

---------------------------------------------------------------------------
(* str methods.                                                            *)

Whitespace == {" ", "\n", "\t", "\r"}

Digits == {"0", "1", "2", "3", "4", "5", "6", "7", "8", "9"}

UpperLetters == <<"A", "B", "C", "D", "E", "F", "G", "H", "I", "J", "K", "L", "M",
                  "N", "O", "P", "Q", "R", "S", "T", "U", "V", "W", "X", "Y", "Z">>

LowerLetters == <<"a", "b", "c", "d", "e", "f", "g", "h", "i", "j", "k", "l", "m",
                  "n", "o", "p", "q", "r", "s", "t", "u", "v", "w", "x", "y", "z">>

Letters == Range(UpperLetters) \cup Range(LowerLetters)

LowerChar(c) ==
    IF c \in Range(UpperLetters)
    THEN LowerLetters[CHOOSE i \in 1..Len(UpperLetters) : UpperLetters[i] = c]
    ELSE c

\* s.lower()
Lower(s) == [i \in 1..Len(s) |-> LowerChar(s[i])]

\* s.strip()
Strip(s) ==
    LET keep == {i \in 1..Len(s) : s[i] \notin Whitespace}
    IN  IF keep = {} THEN <<>>
        ELSE SubSeq(s, CHOOSE i \in keep : \A j \in keep : i <= j,
                       CHOOSE i \in keep : \A j \in keep : j <= i)

\* s.find(sub) + 1: the first position of sub in s, 0 when there is none
Find(s, sub) ==
    LET hits == {i \in 1..(Len(s) - Len(sub) + 1) : SubSeq(s, i, i + Len(sub) - 1) = sub}
    IN  IF hits = {} THEN 0 ELSE CHOOSE i \in hits : \A j \in hits : i <= j

\* sub in s
Contains(s, sub) == Find(s, sub) # 0

RECURSIVE SplitPart(_, _, _)
\* s.split(sep)[k], for a k the split has
SplitPart(s, sep, k) ==
    LET i == Find(s, sep)
    IN  IF i = 0 \/ k = 0
        THEN (IF i = 0 THEN s ELSE SubSeq(s, 1, i - 1))
        ELSE SplitPart(SubSeq(s, i + Len(sep), Len(s)), sep, k - 1)

RECURSIVE Concat(_)
\* "".join(parts)
Concat(parts) == IF parts = <<>> THEN <<>> ELSE Head(parts) \o Concat(Tail(parts))

RECURSIVE IntStr(_)
\* str(n) of an int
IntStr(n) ==
    LET d == <<"0", "1", "2", "3", "4", "5", "6", "7", "8", "9">>[(n % 10) + 1]
    IN  IF n < 0 THEN <<"-">> \o IntStr(0 - n)
        ELSE IF n < 10 THEN <<d>>
        ELSE Append(IntStr(n \div 10), d)

\* repr(s) of a str
ReprStr(s) ==
    LET q == IF "'" \in Range(s) /\ "\"" \notin Range(s) THEN "\"" ELSE "'"
        esc(c) == CASE c = "\\" -> <<"\\", "\\">>
                    [] c = "\n" -> <<"\\", "n">>
                    [] c = "\t" -> <<"\\", "t">>
                    [] c = q    -> <<"\\", c>>
                    [] OTHER    -> <<c>>
    IN  <<q>> \o Concat([i \in 1..Len(s) |-> esc(s[i])]) \o <<q>>

RECURSIVE Repr(_)
\* repr(v); str(v) is repr(v) but for a str
Repr(v) ==
    LET join(items) ==
            Concat([i \in 1..Len(items) |->
                       IF i = 1 THEN items[i] ELSE <<",", " ">> \o items[i]])
    IN  CASE v.t = "None" -> <<"N", "o", "n", "e">>
          [] v.t = "str"  -> ReprStr(v.s)
          [] v.t = "int"  -> IntStr(v.n)
          [] v.t = "bool" -> IF v.b THEN <<"T", "r", "u", "e">>
                                    ELSE <<"F", "a", "l", "s", "e">>
          [] v.t = "list" -> <<"[">> \o join([i \in 1..Len(v.a) |-> Repr(v.a[i])]) \o <<"]">>
          [] v.t = "dict" ->
                <<"{">> \o join([i \in 1..Len(v.o) |->
                                    ReprStr(v.o[i][1]) \o <<":", " ">> \o Repr(v.o[i][2])])
                        \o <<"}">>

\* str(v)
StrOf(v) == IF v.t = "str" THEN v.s ELSE Repr(v)

---------------------------------------------------------------------------
(* OutputCleaner: the field table and the cleaning of one value.           *)

K_name == <<"n", "a", "m", "e">>

K_phone == <<"p", "h", "o", "n", "e">>

K_email == <<"e", "m", "a", "i", "l">>

K_social_id == <<"s", "o", "c", "i", "a", "l", "_", "i", "d">>

K_position == <<"p", "o", "s", "i", "t", "i", "o", "n">>

K_company == <<"c", "o", "m", "p", "a", "n", "y">>

K_address == <<"a", "d", "d", "r", "e", "s", "s">>

K_fax == <<"f", "a", "x">>

K_cardId == <<"c", "a", "r", "d", "I", "d">>

K_profile_image_url == <<"p", "r", "o", "f", "i", "l", "e", "_", "i", "m", "a", "g", "e", "_", "u", "r", "l">>

K_card_img_url == <<"c", "a", "r", "d", "_", "i", "m", "g", "_", "u", "r", "l">>

\* field_mapping, in the order of the dict literal; "H_x" is the Hangul syllable x
field_mapping ==
  <<
    <<K_name,
      <<K_name,
        <<"H_i", "H_reum">>,
        <<"H_seong", "H_myeong">>>>>>,
    <<K_phone,
      <<K_phone,
        <<"H_jeon", "H_hwa", "H_beon", "H_ho">>,
        <<"H_hyu", "H_dae", "H_pon">>,
        <<"H_yeon", "H_rak", "H_cheo">>>>>>,
    <<K_email,
      <<K_email,
        <<"H_i", "H_me", "H_il">>,
        <<"H_me", "H_il">>>>>>,
    <<K_social_id,
      <<K_social_id,
        <<"H_ka", "H_ka", "H_o", "H_tok">>,
        <<"H_ka", "H_tok">>,
        <<"s", "n", "s">>>>>>,
    <<K_position,
      <<K_position,
        <<"H_jik", "H_wi">>,
        <<"H_jik", "H_chaek">>,
        <<"H_yeok", "H_hal">>>>>>,
    <<K_company,
      <<K_company,
        <<"H_hoe", "H_sa">>,
        <<"H_gi", "H_gwan">>,
        <<"H_eop", "H_che">>>>>>,
    <<K_address,
      <<K_address,
        <<"H_ju", "H_so">>,
        <<"H_so", "H_jae", "H_ji">>>>>>,
    <<K_fax,
      <<K_fax,
        <<"H_paek", "H_seu">>,
        <<"H_paek", "H_si", "H_mil", "H_ri">>>>>>
  >>


\* the words of line 104
AbsentWords == {<<"n", "u", "l", "l">>, <<"n", "o", "n", "e">>, <<"n", "/", "a">>, <<"-">>}

\* a character the pattern [^\d\-+()] of line 127 does not match
PhoneChar(c) == c \in Digits \cup {"-", "+", "(", ")"}

\* mutant: the pattern keeps digits and hyphens alone
OnlyDigitsAndHyphens(phone) ==
    LET cleaned == SelectSeq(phone, LAMBDA c : c \in Digits \cup {"-"})
    IN  IF cleaned = <<>> THEN PyNone ELSE PyStr(cleaned)

_clean_phone_number(phone) ==
    LET cleaned == SelectSeq(phone, PhoneChar)
    IN  IF cleaned = <<>> THEN PyNone ELSE PyStr(cleaned)

\* the character classes of email_pattern, line 147
EmailLocalChar(c) == c \in Letters \cup Digits \cup {".", "_", "%", "+", "-"}

EmailDomainChar(c) == c \in Letters \cup Digits \cup {".", "-"}

\* ^[a-zA-Z0-9._%+-]+@[a-zA-Z0-9.-]+\.[a-zA-Z]{2,} matched up to position n of s
EmailMatchTo(s, n) ==
    \E i \in 2..n : \E j \in (i + 2)..(n - 2) :
        /\ s[i] = "@"
        /\ s[j] = "."
        /\ \A k \in 1..(i - 1) : EmailLocalChar(s[k])
        /\ \A k \in (i + 1)..(j - 1) : EmailDomainChar(s[k])
        /\ \A k \in (j + 1)..n : s[k] \in Letters

\* re.match(email_pattern, s): $ is the end of s, or the place before a last newline
EmailMatch(s) ==
    \/ EmailMatchTo(s, Len(s))
    \/ Len(s) > 0 /\ s[Len(s)] = "\n" /\ EmailMatchTo(s, Len(s) - 1)

\* mutant: the address is returned as written, not lower-cased
EmailCaseKept(email) ==
    IF EmailMatch(Strip(email)) THEN PyStr(Strip(email)) ELSE PyNone

_clean_email(email) ==
    IF EmailMatch(Strip(email)) THEN PyStr(Lower(Strip(email))) ELSE PyNone

\* mutant: the absent words are compared without lower()
AbsentWordsCased(value, field_type) ==
    IF value = PyNone \/ value = PyStr(<<>>)
    THEN PyNone
    ELSE LET str_value == Strip(StrOf(value))
         IN  IF str_value = <<>> \/ str_value \in AbsentWords
             THEN PyNone
             ELSE IF field_type = K_phone THEN _clean_phone_number(str_value)
             ELSE IF field_type = K_email THEN _clean_email(str_value)
             ELSE PyStr(str_value)

_clean_field_value(value, field_type) ==
    IF value = PyNone \/ value = PyStr(<<>>)
    THEN PyNone
    ELSE LET str_value == Strip(StrOf(value))
         IN  IF str_value = <<>> \/ Lower(str_value) \in AbsentWords
             THEN PyNone
             ELSE IF field_type = K_phone THEN _clean_phone_number(str_value)
             ELSE IF field_type = K_email THEN _clean_email(str_value)
             ELSE PyStr(str_value)

\* "key in raw_data and raw_data[key] is not None", line 74: "yes", "no", or the
\* exception it raises when raw_data is no dict
AliasTest(raw_data, key) ==
    CASE raw_data.t = "dict" ->
            IF DictHas(raw_data.o, key) /\ DictGet(raw_data.o, key) # PyNone
            THEN "yes" ELSE "no"
      [] raw_data.t = "str" ->
            IF Contains(raw_data.s, key) THEN "TypeError" ELSE "no"
      [] raw_data.t = "list" ->
            IF \E i \in 1..Len(raw_data.a) : raw_data.a[i] = PyStr(key)
            THEN "TypeError" ELSE "no"
      [] OTHER -> "TypeError"

\* mutant: the first alias present wins, null or not
FirstPresentAlias(raw_data, possible_keys, i) ==
    LET present == {j \in i..Len(possible_keys) :
                       raw_data.t = "dict" /\ DictHas(raw_data.o, possible_keys[j])}
    IN  IF raw_data.t # "dict" THEN Raise("TypeError")
        ELSE IF present = {} THEN Return(PyNone)
        ELSE Return(DictGet(raw_data.o,
                 possible_keys[CHOOSE j \in present : \A k \in present : j <= k]))

RECURSIVE SelectValue(_, _, _)
\* the loop of lines 70-76 from the i-th of possible_keys on
SelectValue(raw_data, possible_keys, i) ==
    IF i > Len(possible_keys)
    THEN Return(PyNone)
    ELSE LET test == AliasTest(raw_data, possible_keys[i])
         IN  CASE test = "yes" -> Return(DictGet(raw_data.o, possible_keys[i]))
               [] test = "no"  -> SelectValue(raw_data, possible_keys, i + 1)
               [] OTHER        -> Raise(test)

\* lines 78-82
CleanSelected(value, standard_field) ==
    IF Truthy(value) THEN _clean_field_value(value, standard_field) ELSE PyNone

RECURSIVE CleanFields(_, _, _)
\* the loop of lines 69-82 from the i-th field on
CleanFields(raw_data, i, cleaned) ==
    IF i > Len(field_mapping)
    THEN Return(PyDict(cleaned))
    ELSE LET standard_field == field_mapping[i][1]
             sel == SelectValue(raw_data, field_mapping[i][2], 1)
         IN  IF sel.exc # "none"
             THEN sel
             ELSE CleanFields(raw_data, i + 1,
                      DictPut(cleaned, standard_field,
                              CleanSelected(sel.value, standard_field)))

clean_business_card_data(raw_data) == CleanFields(raw_data, 1, <<>>)

---------------------------------------------------------------------------
(* The inputs of the cleaner: candidate mappings.                          *)

Seqs(A, n) == UNION {[1..k -> A] : k \in 0..n}

Reverse(s) == [i \in 1..Len(s) |-> s[Len(s) + 1 - i]]

\* every spelling of word in upper and lower case
CaseSpellings(word) ==
    LET cased == {c \in Letters \cup Range(word) : LowerChar(c) \in Range(word)}
    IN  {s \in [1..Len(word) -> cased] : Lower(s) = word}

GenAlphabet == {" ", "-", "N", "a", "/"}

PhoneAlphabet == {"0", "-", "+", "(", ")", "T", " "}

EmailAlphabet == {"A", "b", "@", ".", "_"}

CuratedStrings ==
    { <<"n", "u", "l", "l", "s">>, <<"H", "o", "n", "g", " ", "G", "i", "l", "-", "d", "o", "n", "g">>, <<" ", "C", "E", "O", "\n">>, <<"N", "/", "A", ".">>,
      <<"T", "e", "l", ":", " ", "0", "1", "0", "-", "1", "2", "3", "4", "-", "5", "6", "7", "8">>, <<"+", "8", "2", " ", "(", "0", ")", "1", "0", "-", "1", "2", "3", "4", "-", "5", "6", "7", "8">>, <<"e", "x", "t", ".">>,
      <<"F", "o", "o", "@", "B", "a", "r", ".", "C", "O", "M">>, <<"n", "o", "t", "-", "a", "n", "-", "e", "m", "a", "i", "l">>, <<" ", "F", "o", "o", "@", "B", "a", "r", ".", "C", "O", "M", "\n">>, <<"a", "_", "b", "%", "c", "+", "d", "-", "e", ".", "f", "@", "g", "-", "h", ".", "i", "2", ".", "j", "k">>,
      <<"a", "@", "b", "_", "c", ".", "d", "e">>, <<"a", "@", "b", ".", "c", "1">>, <<"a", " ", "b", "@", "c", ".", "d", "e">>, <<"a", "@", "b", ".", "c", "d", "e", " ">>, <<"x", "@", "y", ".", "z">>, <<"a", "#", "b", "@", "c", ".", "d", "e">> }

AbsentSpellings ==
    { l \o w \o r : l \in {<<>>, <<" ">>}, r \in {<<>>, <<"\n">>},
                    w \in UNION {CaseSpellings(a) : a \in AbsentWords} }

GeneralValues ==
    {PyNone, PyInt(0), PyInt(123), PyBool(FALSE), PyBool(TRUE),
     PyList(<<>>), PyList(<<PyInt(1), PyStr(<<"a">>)>>), PyDict(<<>>),
     PyDict(<<<<K_name, PyNone>>>>)}
    \cup {PyStr(s) : s \in Seqs(GenAlphabet, MaxGenLen) \cup CuratedStrings \cup AbsentSpellings}



AliasValues == {PyNone, PyStr(<<>>), PyStr(<<"0", "2", "-", "0", "0", "0">>), PyStr(<<"a", "@", "b", ".", "c", "c">>)}

\* the aliases of a field, each missing (NoKey) or with a value as choice says,
\* in table order or reversed
AliasMap(keys, choice, reversed) ==
    LET pairs == SelectSeq([j \in 1..Len(keys) |-> <<keys[j], choice[j]>>],
                           LAMBDA p : p[2] # NoKey)
    IN  PyDict(IF reversed THEN Reverse(pairs) ELSE pairs)

\* the mapping of the end-to-end example, and one with a key of no field
ExampleMaps ==
    { PyDict(<< <<K_name, PyStr(<<"H_hong", "H_gil", "H_dong">>)>>,
                <<K_phone, PyStr(<<"0", "1", "0", "-", "1", "2", "3", "4", "-", "5", "6", "7", "8">>)>>,
                <<K_email, PyStr(<<"T", "E", "S", "T", "@", "E", "X", "A", "M", "P", "L", "E", ".", "C", "O", "M">>)>>,
                <<K_company, PyNone>> >>),
      PyDict(<< <<<<"H_jeon", "H_hwa", "H_beon", "H_ho">>, PyStr(<<"0", "2", "-", "0", "0", "0">>)>>,
                <<K_phone, PyStr(<<"0", "1", "0", "-", "9", "9", "9">>)>> >>),
      PyDict(<< <<<<"P", "h", "o", "n", "e">>, PyStr(<<"0", "1", "0", "-", "9", "9", "9">>)>>, <<K_fax, PyStr(<<"F", "a", "x", " ", "0", "2", "-", "1">>)>> >>),
      PyDict(<<>>) }



---------------------------------------------------------------------------
(* The cleaner on every candidate mapping.                                 *)

Idle == [t |-> "idle"]

\* raw_data: one key with every kind of value; an email of every spelling; a
\* phone and a fax of every spelling; the aliases of one field; the examples
InitClean ==
    /\ pc = "clean"
    /\ \/ \E i \in 1..Len(field_mapping), v \in GeneralValues :
              arg = PyDict(<<<<field_mapping[i][1], v>>>>)
       \/ \E s \in Seqs(EmailAlphabet, MaxEmailLen) :
              arg = PyDict(<<<<K_email, PyStr(s)>>>>)
       \/ \E k \in {K_phone, K_fax}, s \in Seqs(PhoneAlphabet, MaxPhoneLen) :
              arg = PyDict(<<<<k, PyStr(s)>>>>)
       \/ \E i \in 1..Len(field_mapping), reversed \in BOOLEAN :
              \E choice \in [1..Len(field_mapping[i][2]) -> AliasValues \cup {NoKey}] :
                  arg = AliasMap(field_mapping[i][2], choice, reversed)
       \/ arg \in ExampleMaps
    /\ ret = Idle
    /\ ocr_result = Idle
    /\ classification_result = Idle
    /\ json_result = Idle
    /\ cleaned_data = Idle
    /\ final_result = Idle
    /\ result = Idle
    /\ calls = <<>>

CleanCall ==
    /\ pc = "clean"
    /\ ret' = clean_business_card_data(arg)
    /\ pc' = "cleaned"
    /\ UNCHANGED <<arg, ocr_result, classification_result, json_result,
                   cleaned_data, final_result, result, calls>>

NextClean == CleanCall

SpecClean == InitClean /\ [][NextClean]_vars

---------------------------------------------------------------------------
(* Claims about clean_business_card_data, under SpecClean.                 *)

\* the cleaned value of a field in the mapping the call returned
CleanedOf(field) == DictGet(ret.value.o, field)

\* the positions of possible_keys that arg holds with a value that is not null
LiveAliases(keys) ==
    {j \in 1..Len(keys) :
        \E p \in 1..Len(arg.o) : arg.o[p][1] = keys[j] /\ arg.o[p][2] # PyNone}

\* the value arg holds under the first live alias; None when no alias is live
PriorityRaw(keys) ==
    IF LiveAliases(keys) = {}
    THEN PyNone
    ELSE LET j == CHOOSE a \in LiveAliases(keys) : \A b \in LiveAliases(keys) : a <= b
             p == CHOOSE q \in 1..Len(arg.o) : arg.o[q][1] = keys[j]
         IN  arg.o[p][2]

\* C1: every field is cleaned from the value of its first alias, in table order,
\* that the mapping holds with a non-null value, whatever lower-priority aliases
\* hold and wherever they stand in the mapping; with no such alias it is None.
C1_AliasPriority ==
    pc = "cleaned" =>
        /\ ret.exc = "none"
        /\ \A i \in 1..Len(field_mapping) :
              LET field == field_mapping[i][1]
                  raw == PriorityRaw(field_mapping[i][2])
              IN  /\ CleanedOf(field) = CleanSelected(raw, field)
                  /\ LiveAliases(field_mapping[i][2]) = {} => CleanedOf(field) = PyNone
                  /\ (raw = PyStr(<<"0", "2", "-", "0", "0", "0">>) /\ field # K_email) => CleanedOf(field) = raw
                  /\ (raw = PyStr(<<"a", "@", "b", ".", "c", "c">>) /\ field # K_phone) => CleanedOf(field) = raw

\* C1 witness: the lower-priority alias stands first and holds another value
C1_Witness ==
    /\ pc = "cleaned"
    /\ arg = PyDict(<< <<<<"H_jeon", "H_hwa", "H_beon", "H_ho">>, PyStr(<<"0", "2", "-", "0", "0", "0">>)>>,
                       <<K_phone, PyStr(<<"0", "1", "0", "-", "9", "9", "9">>)>> >>)
    /\ CleanedOf(K_phone) = PyStr(<<"0", "1", "0", "-", "9", "9", "9">>)

\* a raw value that is null, "", or a string that trims to nothing or to an absent word
AbsentLike(v) ==
    \/ v = PyNone
    \/ v.t = "str" /\ \/ Strip(v.s) = <<>>
                      \/ Lower(Strip(v.s)) \in {<<"n", "u", "l", "l">>, <<"n", "o", "n", "e">>, <<"n", "/", "a">>, <<"-">>}

\* C2: a raw value that is null, empty, or a string trimming to nothing or to
\* null, none, n/a or - in any letter case is cleaned to None, in every field.
C2_AbsentValues ==
    pc = "cleaned" =>
        \A i \in 1..Len(field_mapping) :
            AbsentLike(PriorityRaw(field_mapping[i][2]))
                => CleanedOf(field_mapping[i][1]) = PyNone

C2_Witness ==
    /\ pc = "cleaned"
    /\ arg = PyDict(<<<<K_phone, PyStr(<<" ", "N", "/", "a", "\n">>)>>>>)
    /\ CleanedOf(K_phone) = PyNone

\* a raw value that is kept: true, and a string form that is no absent word
Kept(v) ==
    /\ Truthy(v)
    /\ Strip(StrOf(v)) # <<>>
    /\ Lower(Strip(StrOf(v))) \notin {<<"n", "u", "l", "l">>, <<"n", "o", "n", "e">>, <<"n", "/", "a">>, <<"-">>}

RECURSIVE OnlyPhoneChars(_)
\* s without its characters that are no digit, +, -, ( or )
OnlyPhoneChars(s) ==
    IF s = <<>> THEN <<>>
    ELSE IF Head(s) \in {"0", "1", "2", "3", "4", "5", "6", "7", "8", "9", "+", "-", "(", ")"}
         THEN <<Head(s)>> \o OnlyPhoneChars(Tail(s))
         ELSE OnlyPhoneChars(Tail(s))

\* the number a field should hold by the stripping rule
Stripped(v) ==
    IF OnlyPhoneChars(Strip(StrOf(v))) = <<>>
    THEN PyNone
    ELSE PyStr(OnlyPhoneChars(Strip(StrOf(v))))

ValidEmail(s) ==
    LET ats == {i \in 1..Len(s) : s[i] = "@"}
        dots == {j \in 1..Len(s) : s[j] = "."}
        at == CHOOSE i \in ats : TRUE
        dot == CHOOSE j \in dots : \A k \in dots : k <= j
    IN  /\ Cardinality(ats) = 1
        /\ dots # {}
        /\ 1 < at
        /\ at + 1 < dot
        /\ dot + 2 <= Len(s)
        /\ \A k \in 1..(at - 1) : s[k] \in Letters \cup Digits \cup {".", "_", "%", "+", "-"}
        /\ \A k \in (at + 1)..(dot - 1) : s[k] \in Letters \cup Digits \cup {".", "-"}
        /\ \A k \in (dot + 1)..Len(s) : s[k] \in Letters

\* C4: the email field is the lower-cased trimmed string when that string is a
\* valid address, None otherwise; cleaning a cleaned address gives it back.
C4_Email ==
    pc = "cleaned" =>
        LET raw == PriorityRaw(field_mapping[3][2])
            trimmed == Strip(StrOf(raw))
        IN  Truthy(raw) =>
                /\ ValidEmail(trimmed) => CleanedOf(K_email) = PyStr(Lower(trimmed))
                /\ ~ValidEmail(trimmed) => CleanedOf(K_email) = PyNone
                /\ CleanedOf(K_email) # PyNone =>
                      /\ ValidEmail(CleanedOf(K_email).s)
                      /\ _clean_field_value(CleanedOf(K_email), K_email) = CleanedOf(K_email)

C4_Witness ==
    /\ pc = "cleaned"
    /\ arg = PyDict(<<<<K_email, PyStr(<<"F", "o", "o", "@", "B", "a", "r", ".", "C", "O", "M">>)>>>>)
    /\ CleanedOf(K_email) = PyStr(<<"f", "o", "o", "@", "b", "a", "r", ".", "c", "o", "m">>)

C4_WitnessInvalid ==
    /\ pc = "cleaned"
    /\ arg = PyDict(<<<<K_email, PyStr(<<"n", "o", "t", "-", "a", "n", "-", "e", "m", "a", "i", "l">>)>>>>)
    /\ CleanedOf(K_email) = PyNone

---------------------------------------------------------------------------
(* json.loads: objects, arrays, strings, integers, true, false and null.   *)
(* An escape in a string and a float are not read: the texts have none.    *)

JsonWhitespace == {" ", "\t", "\n", "\r"}

\* the value, the position after it and the outcome: "ok", "error" (a
\* JSONDecodeError) or "unread" (an escape or a float)
Parsed(v, i) == [st |-> "ok", v |-> v, i |-> i]

ParseError == [st |-> "error", v |-> PyNone, i |-> 0]

ParseUnread == [st |-> "unread", v |-> PyNone, i |-> 0]

\* the first position from i on that holds no whitespace
SkipWs(s, i) ==
    LET rest == {j \in i..Len(s) : s[j] \notin JsonWhitespace}
    IN  IF rest = {} THEN Len(s) + 1 ELSE CHOOSE j \in rest : \A k \in rest : j <= k

At(s, i) == IF i \in 1..Len(s) THEN s[i] ELSE "EOF"

RECURSIVE DigitsValue(_)
\* int(digits)
DigitsValue(ds) ==
    IF ds = <<>> THEN 0
    ELSE 10 * DigitsValue(SubSeq(ds, 1, Len(ds) - 1))
         + (CHOOSE d \in 0..9 : IntStr(d) = <<ds[Len(ds)]>>)

\* scanstring: s[i] is the opening quote
ParseString(s, i) ==
    LET ends == {j \in (i + 1)..Len(s) : s[j] = "\""}
        j == CHOOSE a \in ends : \A b \in ends : a <= b
    IN  IF ends = {} THEN ParseError
        ELSE IF \E k \in (i + 1)..(j - 1) : s[k] = "\\" THEN ParseUnread
        ELSE IF \E k \in (i + 1)..(j - 1) : s[k] \in {"\n", "\t", "\r"} THEN ParseError
        ELSE Parsed(PyStr(SubSeq(s, i + 1, j - 1)), j + 1)

\* NUMBER_RE: -?(0|[1-9]\d*) and then no fraction and no exponent
ParseNumber(s, i) ==
    LET from == IF At(s, i) = "-" THEN i + 1 ELSE i
        stop == {j \in from..(Len(s) + 1) : At(s, j) \notin Digits}
        to == IF At(s, from) = "0" THEN from + 1
              ELSE CHOOSE a \in stop : \A b \in stop : a <= b
        value == DigitsValue(SubSeq(s, from, to - 1))
    IN  IF At(s, from) \notin Digits THEN ParseError
        ELSE IF \/ At(s, to) = "." /\ At(s, to + 1) \in Digits
                \/ At(s, to) \in {"e", "E"} /\ At(s, to + 1) \in Digits
                \/ At(s, to) \in {"e", "E"} /\ At(s, to + 1) \in {"+", "-"}
                                            /\ At(s, to + 2) \in Digits
             THEN ParseUnread
        ELSE Parsed(PyInt(IF from = i THEN value ELSE 0 - value), to)

RECURSIVE ParseValue(_, _)
RECURSIVE ParseMembers(_, _, _)
RECURSIVE ParseElements(_, _, _)

\* JSONObject after "{" or ",": i is at the quote of the next key
ParseMembers(s, i, pairs) ==
    LET key == ParseString(s, i)
        colon == SkipWs(s, key.i)
        value == ParseValue(s, SkipWs(s, colon + 1))
        next == SkipWs(s, value.i)
        more == SkipWs(s, next + 1)
    IN  IF At(s, i) # "\"" THEN ParseError
        ELSE IF key.st # "ok" THEN key
        ELSE IF At(s, colon) # ":" THEN ParseError
        ELSE IF value.st # "ok" THEN value
        ELSE IF At(s, next) = "}"
             THEN Parsed(PyDict(DictPut(pairs, key.v.s, value.v)), next + 1)
        ELSE IF At(s, next) # "," THEN ParseError
        ELSE ParseMembers(s, more, DictPut(pairs, key.v.s, value.v))

\* JSONArray after "[" or ",": i is at the next value
ParseElements(s, i, items) ==
    LET value == ParseValue(s, i)
        next == SkipWs(s, value.i)
    IN  IF value.st # "ok" THEN value
        ELSE IF At(s, next) = "]" THEN Parsed(PyList(Append(items, value.v)), next + 1)
        ELSE IF At(s, next) # "," THEN ParseError
        ELSE ParseElements(s, SkipWs(s, next + 1), Append(items, value.v))

\* scan_once
ParseValue(s, i) ==
    LET c == At(s, i)
        word(w) == i + Len(w) - 1 <= Len(s) /\ SubSeq(s, i, i + Len(w) - 1) = w
    IN  CASE c = "\"" -> ParseString(s, i)
          [] c = "{" -> IF At(s, SkipWs(s, i + 1)) = "}"
                         THEN Parsed(PyDict(<<>>), SkipWs(s, i + 1) + 1)
                         ELSE ParseMembers(s, SkipWs(s, i + 1), <<>>)
          [] c = "[" -> IF At(s, SkipWs(s, i + 1)) = "]"
                         THEN Parsed(PyList(<<>>), SkipWs(s, i + 1) + 1)
                         ELSE ParseElements(s, SkipWs(s, i + 1), <<>>)
          [] c = "n" /\ word(<<"n", "u", "l", "l">>) -> Parsed(PyNone, i + 4)
          [] c = "t" /\ word(<<"t", "r", "u", "e">>) -> Parsed(PyBool(TRUE), i + 4)
          [] c = "f" /\ word(<<"f", "a", "l", "s", "e">>) -> Parsed(PyBool(FALSE), i + 5)
          [] c \in Digits \cup {"-"} ->
                IF word(<<"-", "I", "n", "f", "i", "n", "i", "t", "y">>) THEN ParseUnread ELSE ParseNumber(s, i)
          [] c = "N" /\ word(<<"N", "a", "N">>) -> ParseUnread
          [] c = "I" /\ word(<<"I", "n", "f", "i", "n", "i", "t", "y">>) -> ParseUnread
          [] OTHER -> ParseError

\* json.loads(s): one value between whitespace, nothing after it
json_loads(s) ==
    LET value == ParseValue(s, SkipWs(s, 1))
    IN  IF value.st = "ok" /\ SkipWs(s, value.i) # Len(s) + 1 THEN ParseError ELSE value

---------------------------------------------------------------------------
(* OutputCleaner.extract_json_from_response                                *)

Fence == <<"GRAVE", "GRAVE", "GRAVE">>

FenceJson == <<"GRAVE", "GRAVE", "GRAVE", "j", "s", "o", "n">>

\* the message of line 39; "<str(e)>" stands for the decoder's own text
ParseErrorText == <<"J", "S", "O", "N", " ", "H_pa", "H_sing", " ", "H_o", "H_ryu", ":", " ", "<str(e)>">>

\* lines 20-25
FencedPart(response) ==
    IF Contains(response, FenceJson)
    THEN Strip(SplitPart(SplitPart(response, FenceJson, 1), Fence, 0))
    ELSE IF Contains(response, Fence)
    THEN Strip(SplitPart(response, Fence, 1))
    ELSE Strip(response)

\* mutant: the failure carries the text that was parsed, not the response
FailureCarriesJsonStr(response) ==
    LET json_str == FencedPart(response)
        parsed == json_loads(json_str)
    IN  IF parsed.st = "ok"
        THEN [success |-> TRUE, data |-> parsed.v, error |-> PyNone,
              raw_response |-> NoKey]
        ELSE [success |-> FALSE, data |-> PyNone, error |-> PyStr(ParseErrorText),
              raw_response |-> PyStr(json_str)]

extract_json_from_response(response) ==
    LET json_str == FencedPart(response)
        parsed == json_loads(json_str)
    IN  IF parsed.st = "ok"
        THEN [success |-> TRUE, data |-> parsed.v, error |-> PyNone,
              raw_response |-> NoKey]
        ELSE [success |-> FALSE, data |-> PyNone, error |-> PyStr(ParseErrorText),
              raw_response |-> PyStr(response)]

---------------------------------------------------------------------------
(* The inputs of the extractor: JSON texts, bare and in fences.            *)

MaxJsonLen == 4

JsonAlphabet == {"{", "}", "[", "]", "\"", "1", " "}

\* an object of one member whose value is the text
MemberText(text) == <<"{", "\"", "n", "a", "m", "e", "\"", ":">> \o text \o <<"}">>

\* the model's answer of the end-to-end example
ExampleBody ==
    <<"{", "\"", "n", "a", "m", "e", "\"", ":", "\"">> \o <<"H_hong", "H_gil", "H_dong">>
        \o <<"\"", ",", "\"", "p", "h", "o", "n", "e", "\"", ":", "\"", "0", "1", "0", "-", "1", "2", "3", "4", "-", "5", "6", "7", "8", "\"", ",", "\"", "e", "m", "a", "i", "l", "\"", ":", "\"", "T", "E", "S", "T", "@", "E", "X", "A", "M", "P", "L", "E", ".", "C", "O", "M", "\"", ",", "\"", "c", "o", "m", "p", "a", "n", "y", "\"", ":", "n", "u", "l", "l", "}">>

CuratedBodies ==
    { ExampleBody,
      <<"{", "\"", "n", "a", "m", "e", "\"", ":", " ", "\"", "K", "i", "m", "\"", ",", " ", "\"", "f", "a", "x", "\"", ":", " ", "\"", "F", "a", "x", " ", "0", "2", "-", "1", "\"", ",", " ", "\"", "s", "n", "s", "\"", ":", " ", "[", "1", ",", " ", "\"", "a", "\"", "]", ",", " ", "\"", "n", "a", "m", "e", "\"", ":", " ", "7", "}">>,
      <<" ", "{", "\"", "p", "h", "o", "n", "e", "\"", ":", " ", "\"", "0", "1", "0", "-", "9", "9", "9", "\"", ",", "\n", " ", "\"", "e", "m", "a", "i", "l", "\"", ":", " ", "n", "u", "l", "l", "}", "\n">>,
      <<"{", "\"", "m", "e", "m", "o", "\"", ":", "\"", "GRAVE", "GRAVE", "GRAVE", "1", "GRAVE", "GRAVE", "GRAVE", "\"", "}">>,
      <<"{", "\"", "m", "e", "m", "o", "\"", ":", "\"", "GRAVE", "GRAVE", "GRAVE", "{", "}", "GRAVE", "GRAVE", "GRAVE", "\"", "}">>,
      <<"{", "\"", "m", "e", "m", "o", "\"", ":", "\"", "a", "GRAVE", "GRAVE", "GRAVE", "b", "\"", "}">>,
      <<"{", "\"", "m", "e", "m", "o", "\"", ":", "\"", "GRAVE", "GRAVE", "GRAVE", "j", "s", "o", "n", "{", "}", "GRAVE", "GRAVE", "GRAVE", "\"", "}">>,
      <<"{", "\"", "GRAVE", "GRAVE", "GRAVE", "\"", ":", "\"", "GRAVE", "GRAVE", "\"", "}">>,
      <<"{", "\"", "n", "a", "m", "e", "\"", ":", " ", "\"", "K", "i", "m", "\"">>,
      <<"{", "\"", "n", "a", "m", "e", "\"", ":", " ", "\"", "K", "i", "m", "\"", ",", "}">>,
      <<"{", "n", "a", "m", "e", ":", " ", "\"", "K", "i", "m", "\"", "}">>,
      <<"{", "\"", "n", "a", "m", "e", "\"", " ", "\"", "K", "i", "m", "\"", "}">>,
      <<"{", "\"", "n", "a", "m", "e", "\"", ":", " ", "\"", "K", "i", "m", "\"", "}", " ", "t", "h", "a", "n", "k", "s">>,
      <<"{", "\"", "n", "a", "m", "e", "\"", ":", " ", "\"", "K", "i", "\n", "m", "\"", "}">>,
      <<"{", "\"", "n", "a", "m", "e", "\"", ":", " ", "0", "1", "}">>,
      <<"S", "o", "r", "r", "y", ",", " ", "n", "o", " ", "c", "a", "r", "d", ".">>,
      <<"n", "u", "l", "l">>, <<"t", "r", "u", "e">>, <<"f", "a", "l", "s", "e">>, <<"n", "u", "l">>, <<"0">>, <<"-", "1", "2">>, <<"1", "2", "3">>,
      <<"\"", "n", "a", "m", "e", "\"">>, <<"\"", "m", "y", " ", "p", "h", "o", "n", "e", "\"">>, <<"\"", "K", "i", "m", "\"">>,
      <<"[", "]">>, <<"[", "\"", "n", "a", "m", "e", "\"", "]">>, <<"[", "\"", "K", "i", "m", "\"", ",", " ", "1", "]">>, <<"[", "1", ",", "]">> }



\* J in a json fence, on lines of its own and on one line
FencedJson(body) == {FenceJson \o <<"\n">> \o body \o <<"\n">> \o Fence,
                     FenceJson \o body \o Fence}

\* J in a fence that is bare, never closed, among prose, or one of two
OtherFences(body) ==
    { Fence \o <<"\n">> \o body \o <<"\n">> \o Fence,
      FenceJson \o <<"\n">> \o body,
      Fence \o body,
      <<"H", "e", "r", "e", " ", "i", "s", " ", "t", "h", "e", " ", "c", "a", "r", "d", ":", "\n">> \o FenceJson \o <<"\n">> \o body \o <<"\n">> \o Fence \o <<"\n", "D", "o", "n", "e", ".">>,
      <<"H", "e", "r", "e", ":", "\n">> \o Fence \o body \o Fence \o <<" ", "o", "r", " ">> \o FenceJson \o <<"{", "}">> \o Fence,
      <<"C", "a", "r", "d", ":", " ">> \o body }



---------------------------------------------------------------------------
(* The extractor on every input: on the text, then on the JSON text alone. *)

\* body: a short text, an object around one, or a curated text; response: the
\* body bare or in a json fence, and a curated body in the other fences too
InitExtract ==
    /\ pc = "extract"
    /\ \E body \in CuratedBodies \cup
                    UNION {{t, MemberText(t)} : t \in Seqs(JsonAlphabet, MaxJsonLen)} :
          \E response \in {body} \cup FencedJson(body)
                             \cup (IF body \in CuratedBodies THEN OtherFences(body) ELSE {}) :
              arg = [response |-> response, body |-> body]
    /\ ret = [response |-> Idle, body |-> Idle]
    /\ ocr_result = Idle
    /\ classification_result = Idle
    /\ json_result = Idle
    /\ cleaned_data = Idle
    /\ final_result = Idle
    /\ result = Idle
    /\ calls = <<>>

ExtractResponse ==
    /\ pc = "extract"
    /\ ret' = [ret EXCEPT !.response = extract_json_from_response(arg.response)]
    /\ pc' = "extracted"
    /\ UNCHANGED <<arg, ocr_result, classification_result, json_result,
                   cleaned_data, final_result, result, calls>>

ExtractBody ==
    /\ pc = "extracted"
    /\ ret' = [ret EXCEPT !.body = extract_json_from_response(arg.body)]
    /\ pc' = "compared"
    /\ UNCHANGED <<arg, ocr_result, classification_result, json_result,
                   cleaned_data, final_result, result, calls>>

NextExtract == ExtractResponse \/ ExtractBody

SpecExtract == InitExtract /\ [][NextExtract]_vars

\* no text of the inputs holds an escape or a float
AllTextsRead ==
    pc = "compared" =>
        /\ json_loads(FencedPart(arg.response)).st # "unread"
        /\ json_loads(FencedPart(arg.body)).st # "unread"

---------------------------------------------------------------------------
(* Claims about extract_json_from_response, under SpecExtract.             *)

\* J is the text of a JSON object
ValidObject(body) == json_loads(body).st = "ok" /\ json_loads(body).v.t = "dict"

\* C5 as stated: a JSON object in a json fence is extracted as the same object
\* bare is, the same success flag and the same data, backticks in it or not.
C5_FenceSameAsBare ==
    (pc = "compared" /\ arg.response \in FencedJson(arg.body) /\ ValidObject(arg.body)) =>
        /\ ret.response.success = ret.body.success
        /\ ret.response.data = ret.body.data

\* what does hold: a JSON object without three backticks in a row is extracted,
\* fenced or bare, as the object it is
FenceSameWithoutBackticks ==
    (/\ pc = "compared"
     /\ arg.response \in FencedJson(arg.body)
     /\ ValidObject(arg.body)
     /\ ~Contains(arg.body, Fence)) =>
        /\ ret.response.success /\ ret.body.success
        /\ ret.response.data = json_loads(arg.body).v
        /\ ret.body.data = json_loads(arg.body).v

\* the text after the first opener up to the next fence, or to the end
AfterOpener(text, opener) ==
    LET from == Find(text, opener) + Len(opener)
        rest == [i \in 1..(Len(text) - from + 1) |-> text[from + i - 1]]
    IN  IF Find(rest, Fence) = 0 THEN rest
        ELSE [i \in 1..(Find(rest, Fence) - 1) |-> rest[i]]

\* the fence-stripped, trimmed substring of section 4.1
StrippedOfFence(text) ==
    Strip(IF Contains(text, FenceJson) THEN AfterOpener(text, FenceJson)
          ELSE IF Contains(text, Fence) THEN AfterOpener(text, Fence)
          ELSE text)

\* a failure that carries text: no data, an error detail, the text itself
FailureWith(r, text) ==
    /\ r.success = FALSE
    /\ r.data = PyNone
    /\ r.error # PyNone /\ r.error.t = "str" /\ r.error.s # <<>>
    /\ r.raw_response = PyStr(text)

\* C6: when the fence-stripped, trimmed substring is no JSON, the result is a
\* failure with no data and an error detail that carries the whole input text.
C6_MalformedKeepsText ==
    /\ (pc \in {"extracted", "compared"}
          /\ json_loads(StrippedOfFence(arg.response)).st = "error")
            => FailureWith(ret.response, arg.response)
    /\ (pc = "compared" /\ json_loads(StrippedOfFence(arg.body)).st = "error")
            => FailureWith(ret.body, arg.body)

\* C6 witness: the remainder after a fence that is never closed
C6_Witness ==
    /\ pc = "extracted"
    /\ arg.response = FenceJson \o <<"\n">> \o <<"{", "\"", "n", "a", "m", "e", "\"", ":", " ", "\"", "K", "i", "m", "\"">>
    /\ FailureWith(ret.response, arg.response)

C6_WitnessUnterminated ==
    /\ pc = "extracted"
    /\ arg.response = <<"{", "\"", "n", "a", "m", "e", "\"", ":", " ", "\"", "K", "i", "m", "\"">>
    /\ FailureWith(ret.response, arg.response)

---------------------------------------------------------------------------
(* OutputCleaner.create_final_result                                       *)

\* cleaned_data.get(key)
DictGetOrNone(o, key) == IF DictHas(o, key) THEN DictGet(o, key) ELSE PyNone

\* mutant: a field the cleaned mapping lacks is left out of the record
FinalResultWithoutMissing(cleaned, card_id, image_path, profile_image_url) ==
    PyDict(SelectSeq(
        << <<K_cardId, card_id>>,
           <<K_name, DictGetOrNone(cleaned.o, K_name)>>,
           <<K_phone, DictGetOrNone(cleaned.o, K_phone)>>,
           <<K_email, DictGetOrNone(cleaned.o, K_email)>>,
           <<K_profile_image_url, profile_image_url>>,
           <<K_card_img_url, image_path>>,
           <<K_address, DictGetOrNone(cleaned.o, K_address)>>,
           <<K_fax, DictGetOrNone(cleaned.o, K_fax)>>,
           <<K_position, DictGetOrNone(cleaned.o, K_position)>>,
           <<K_company, DictGetOrNone(cleaned.o, K_company)>>,
           <<K_social_id, DictGetOrNone(cleaned.o, K_social_id)>> >>,
        LAMBDA p : p[1] \in {K_cardId, K_profile_image_url, K_card_img_url}
                   \/ DictHas(cleaned.o, p[1])))

create_final_result(cleaned, card_id, image_path, profile_image_url) ==
    PyDict(<< <<K_cardId, card_id>>,
              <<K_name, DictGetOrNone(cleaned.o, K_name)>>,
              <<K_phone, DictGetOrNone(cleaned.o, K_phone)>>,
              <<K_email, DictGetOrNone(cleaned.o, K_email)>>,
              <<K_profile_image_url, profile_image_url>>,
              <<K_card_img_url, image_path>>,
              <<K_address, DictGetOrNone(cleaned.o, K_address)>>,
              <<K_fax, DictGetOrNone(cleaned.o, K_fax)>>,
              <<K_position, DictGetOrNone(cleaned.o, K_position)>>,
              <<K_company, DictGetOrNone(cleaned.o, K_company)>>,
              <<K_social_id, DictGetOrNone(cleaned.o, K_social_id)>> >>)

\* the value of a parameter: the argument, or the default when none is passed
ArgOr(argument, default) == IF argument = NoKey THEN default ELSE argument

---------------------------------------------------------------------------
(* The assembler on cleaned mappings, whole and partial.                   *)

MaxCleanedFields == 3

CleanedValues == {PyNone, PyStr(<<"K", "i", "m">>)}

\* the mapping that holds the fields of S, in table order, with the values of f
CleanedMap(S, f) ==
    PyDict(SelectSeq([i \in 1..Len(field_mapping) |->
                         <<field_mapping[i][1], IF i \in S THEN f[i] ELSE NoKey>>],
                     LAMBDA p : p[2] # NoKey))

\* a mapping with a key of no field
ForeignMap == PyDict(<< <<<<"m", "e", "m", "o">>, PyStr(<<"x">>)>>, <<K_fax, PyStr(<<"0", "2">>)>>, <<K_name, PyNone>> >>)

\* cleaned_data: at most MaxCleanedFields fields, or all eight; the other
\* arguments passed or left to their defaults (NoKey)
InitAssemble ==
    /\ pc = "assemble"
    /\ \E S \in SUBSET (1..Len(field_mapping)) :
          /\ Cardinality(S) <= MaxCleanedFields \/ Cardinality(S) = Len(field_mapping)
          /\ \E f \in [S -> CleanedValues] :
                \E c \in {CleanedMap(S, f), ForeignMap} :
                    arg \in [cleaned_data : {c},
                             card_id : {NoKey, PyInt(7)},
                             image_path : {NoKey, PyStr(<<"c", "a", "r", "d", ".", "p", "n", "g">>)},
                             profile_image_url : {NoKey, PyStr(<<"m", "e", ".", "p", "n", "g">>)}]
    /\ ret = Idle
    /\ ocr_result = Idle
    /\ classification_result = Idle
    /\ json_result = Idle
    /\ cleaned_data = Idle
    /\ final_result = Idle
    /\ result = Idle
    /\ calls = <<>>

\* create_final_result(cleaned_data, ...) with the defaults of lines 155-156
AssembleCall ==
    /\ pc = "assemble"
    /\ ret' = create_final_result(arg.cleaned_data, ArgOr(arg.card_id, PyInt(1)),
                                  ArgOr(arg.image_path, PyNone),
                                  ArgOr(arg.profile_image_url, PyNone))
    /\ pc' = "assembled"
    /\ UNCHANGED <<arg, ocr_result, classification_result, json_result,
                   cleaned_data, final_result, result, calls>>

NextAssemble == AssembleCall

SpecAssemble == InitAssemble /\ [][NextAssemble]_vars

\* C10: the record has the eleven keys and no other, each once, whatever the
\* cleaned mapping holds; a field the mapping lacks is None, a field it holds has
\* its value, and profile_image_url is None when the caller passes none.
C10_ElevenKeys ==
    pc = "assembled" =>
        /\ [i \in 1..Len(ret.o) |-> ret.o[i][1]]
             = << <<"c", "a", "r", "d", "I", "d">>, <<"n", "a", "m", "e">>, <<"p", "h", "o", "n", "e">>, <<"e", "m", "a", "i", "l">>, <<"p", "r", "o", "f", "i", "l", "e", "_", "i", "m", "a", "g", "e", "_", "u", "r", "l">>,
                  <<"c", "a", "r", "d", "_", "i", "m", "g", "_", "u", "r", "l">>, <<"a", "d", "d", "r", "e", "s", "s">>, <<"f", "a", "x">>, <<"p", "o", "s", "i", "t", "i", "o", "n">>, <<"c", "o", "m", "p", "a", "n", "y">>,
                  <<"s", "o", "c", "i", "a", "l", "_", "i", "d">> >>
        /\ \A k \in { <<"n", "a", "m", "e">>, <<"p", "h", "o", "n", "e">>, <<"e", "m", "a", "i", "l">>, <<"a", "d", "d", "r", "e", "s", "s">>, <<"f", "a", "x">>, <<"p", "o", "s", "i", "t", "i", "o", "n">>,
                      <<"c", "o", "m", "p", "a", "n", "y">>, <<"s", "o", "c", "i", "a", "l", "_", "i", "d">> } :
              /\ (\A p \in 1..Len(arg.cleaned_data.o) : arg.cleaned_data.o[p][1] # k)
                    => DictGet(ret.o, k) = PyNone
              /\ \A p \in 1..Len(arg.cleaned_data.o) :
                    arg.cleaned_data.o[p][1] = k
                        => DictGet(ret.o, k) = arg.cleaned_data.o[p][2]
        /\ DictGet(ret.o, <<"c", "a", "r", "d", "I", "d">>)
              = IF arg.card_id = NoKey THEN PyInt(1) ELSE arg.card_id
        /\ arg.profile_image_url = NoKey => DictGet(ret.o, <<"p", "r", "o", "f", "i", "l", "e", "_", "i", "m", "a", "g", "e", "_", "u", "r", "l">>) = PyNone
        /\ arg.profile_image_url # NoKey
              => DictGet(ret.o, <<"p", "r", "o", "f", "i", "l", "e", "_", "i", "m", "a", "g", "e", "_", "u", "r", "l">>) = arg.profile_image_url

\* C10 witness: the empty mapping, and no profile image passed
C10_Witness ==
    /\ pc = "assembled"
    /\ arg.cleaned_data = PyDict(<<>>)
    /\ arg.profile_image_url = NoKey
    /\ Len(ret.o) = 11
    /\ DictGet(ret.o, K_name) = PyNone

---------------------------------------------------------------------------
(* BusinessCardProcessor.process_business_card, src/main.py.  The OCR, the *)
(* classifier and the two saves are collaborators: each call has any of    *)
(* the outcomes its code can return.                                       *)

MaxReplyLen == 2

Call(fn, outcome) == [fn |-> fn, outcome |-> outcome]

\* VisionOCR.extract_text_from_image: the text of the card, or a failure
OcrOutcomes ==
    { [success |-> TRUE, extracted_text |-> PyStr(<<"K", "i", "m", "\n", "0", "1", "0", "-", "1", "2", "3", "4", "-", "5", "6", "7", "8">>), error |-> PyNone],
      [success |-> FALSE, extracted_text |-> PyNone,
       error |-> PyStr(<<"O", "C", "R", " ", "H_gyeol", "H_gwa", " ", "H_eop", "H_eum">>)],
      [success |-> FALSE, extracted_text |-> PyNone, error |-> PyStr(<<"<", "s", "t", "r", "(", "e", ")", ">">>)] }

\* the texts the model can answer with
Replies ==
    UNION {{body} \cup FencedJson(body) \cup OtherFences(body) : body \in CuratedBodies}
    \cup UNION {{t, MemberText(t)} : t \in Seqs(JsonAlphabet, MaxReplyLen)}

\* GroqLLaMAParser.classify_business_card_info: an answer, or a failure
ClassificationOutcomes ==
    {[success |-> TRUE, raw_response |-> PyStr(r), error |-> PyNone] : r \in Replies}
    \cup { [success |-> FALSE, raw_response |-> PyNone,
            error |-> PyStr(<<"A", "P", "I", " ", "H_yo", "H_cheong", " ", "H_o", "H_ryu", ":", " ",
                              "<str(e)>">>)],
           [success |-> FALSE, raw_response |-> PyDict(<<>>),
            error |-> PyStr(<<"<", "n", "o", " ", "c", "h", "o", "i", "c", "e", "s", ">">>)] }

\* lines 55-59
OcrFailure(ocr) ==
    [success |-> FALSE,
     error |-> PyStr(<<"O", "C", "R", " ", "H_sil", "H_pae", ":", " ">> \o StrOf(ocr.error)),
     step |-> "OCR"]

\* lines 72-76
ClassificationFailure(classification) ==
    [success |-> FALSE,
     error |-> PyStr(<<"H_bun", "H_ryu", " ", "H_sil", "H_pae", ":", " ">>
                     \o StrOf(classification.error)),
     step |-> "Classification"]

\* lines 85-90
JsonFailure(json, classification) ==
    [success |-> FALSE,
     error |-> PyStr(<<"J", "S", "O", "N", " ", "H_pa", "H_sing", " ", "H_sil", "H_pae", ":", " ">>
                     \o StrOf(json.error)),
     step |-> "JSON Parsing",
     raw_response |-> classification.raw_response]

\* lines 106-111
SuccessResult(final, extracted_text) ==
    [success |-> TRUE, data |-> final, extracted_text |-> extracted_text, error |-> PyNone]

\* where control goes after line 52: the return of line 55, the save, or the classifier
StageAfterOcr(ocr, save_intermediate) ==
    IF ~ocr.success THEN "done"
    ELSE IF save_intermediate THEN "save_ocr" ELSE "classify"

\* mutant: no return after a failed classification
ClassificationNeverReturns(classification) == "extract"

\* where control goes after line 69: the return of line 72, or the extractor
StageAfterClassification(classification) ==
    IF ~classification.success THEN "done" ELSE "extract"

\* where control goes after line 82: the return of line 85, or the cleaner
StageAfterExtraction(json) ==
    IF ~json.success THEN "done" ELSE "clean"

InitPipeline ==
    /\ pc = "ocr"
    /\ arg \in [image_path : {PyStr(<<"c", "a", "r", "d", ".", "p", "n", "g">>)},
               card_id : {PyInt(1), PyInt(7)},
               save_intermediate : BOOLEAN]
    /\ ret = Idle
    /\ ocr_result = Idle
    /\ classification_result = Idle
    /\ json_result = Idle
    /\ cleaned_data = Idle
    /\ final_result = Idle
    /\ result = Idle
    /\ calls = <<>>

\* lines 52-62
Ocr ==
    /\ pc = "ocr"
    /\ \E outcome \in OcrOutcomes :
          /\ ocr_result' = outcome
          /\ calls' = Append(calls, Call("extract_text_from_image", outcome.success))
          /\ result' = IF ~outcome.success THEN OcrFailure(outcome) ELSE result
          /\ pc' = StageAfterOcr(outcome, arg.save_intermediate)
    /\ UNCHANGED <<arg, ret, classification_result, json_result, cleaned_data, final_result>>

\* lines 64-65: the files are written or not, and the answer is dropped
SaveOcr ==
    /\ pc = "save_ocr"
    /\ \E saved \in BOOLEAN : calls' = Append(calls, Call("save_ocr_results", saved))
    /\ pc' = "classify"
    /\ UNCHANGED <<arg, ret, ocr_result, classification_result, json_result,
                   cleaned_data, final_result, result>>

\* lines 69-78
Classify ==
    /\ pc = "classify"
    /\ \E outcome \in ClassificationOutcomes :
          /\ classification_result' = outcome
          /\ calls' = Append(calls, Call("classify_business_card_info", outcome.success))
          /\ result' = IF ~outcome.success THEN ClassificationFailure(outcome) ELSE result
          /\ pc' = StageAfterClassification(outcome)
    /\ UNCHANGED <<arg, ret, ocr_result, json_result, cleaned_data, final_result>>

\* lines 82-90; a raw_response that is no str has no split and no strip
Extract ==
    /\ pc = "extract"
    /\ IF classification_result.raw_response.t = "str"
       THEN LET json == extract_json_from_response(classification_result.raw_response.s)
            IN  /\ json_result' = json
                /\ calls' = Append(calls, Call("extract_json_from_response", json.success))
                /\ result' = IF ~json.success THEN JsonFailure(json, classification_result)
                                              ELSE result
                /\ pc' = StageAfterExtraction(json)
       ELSE /\ calls' = Append(calls, Call("extract_json_from_response", FALSE))
            /\ result' = Raise(IF classification_result.raw_response.t = "None"
                               THEN "TypeError" ELSE "AttributeError")
            /\ pc' = "raised"
            /\ UNCHANGED json_result
    /\ UNCHANGED <<arg, ret, ocr_result, classification_result, cleaned_data, final_result>>

\* line 93: the mapping, or the exception that leaves process_business_card
Clean ==
    /\ pc = "clean"
    /\ LET cleaned == clean_business_card_data(json_result.data)
       IN  /\ calls' = Append(calls, Call("clean_business_card_data", cleaned.exc = "none"))
           /\ cleaned_data' = IF cleaned.exc = "none" THEN cleaned.value ELSE cleaned_data
           /\ result' = IF cleaned.exc = "none" THEN result ELSE cleaned
           /\ pc' = IF cleaned.exc = "none" THEN "assemble" ELSE "raised"
    /\ UNCHANGED <<arg, ret, ocr_result, classification_result, json_result, final_result>>

\* lines 94-98
Assemble ==
    /\ pc = "assemble"
    /\ final_result' = create_final_result(cleaned_data, arg.card_id, arg.image_path, PyNone)
    /\ calls' = Append(calls, Call("create_final_result", TRUE))
    /\ pc' = IF arg.save_intermediate THEN "save_result" ELSE "return"
    /\ UNCHANGED <<arg, ret, ocr_result, classification_result, json_result,
                   cleaned_data, result>>

\* lines 103-104: save_result answers True or False, and the answer is dropped
SaveResult ==
    /\ pc = "save_result"
    /\ \E saved \in BOOLEAN : calls' = Append(calls, Call("save_result", saved))
    /\ pc' = "return"
    /\ UNCHANGED <<arg, ret, ocr_result, classification_result, json_result,
                   cleaned_data, final_result, result>>

\* lines 106-111
ReturnSuccess ==
    /\ pc = "return"
    /\ result' = SuccessResult(final_result, ocr_result.extracted_text)
    /\ pc' = "done"
    /\ UNCHANGED <<arg, ret, ocr_result, classification_result, json_result,
                   cleaned_data, final_result, calls>>

Next ==
    \/ Ocr
    \/ SaveOcr
    \/ Classify
    \/ Extract
    \/ Clean
    \/ Assemble
    \/ SaveResult
    \/ ReturnSuccess

Spec == InitPipeline /\ [][Next]_vars

\* the functions called so far
Called == {calls[i].fn : i \in 1..Len(calls)}

\* no answer of the model holds an escape or a float
AllRepliesRead ==
    classification_result # Idle /\ classification_result.raw_response.t = "str"
        => json_loads(FencedPart(classification_result.raw_response.s)).st # "unread"

---------------------------------------------------------------------------
(* Claims about process_business_card, under Spec.                         *)

\* C7: the first stage that fails ends the run and is the step of the result.
\* After a failed OCR nothing else was called; after a failed classification
\* neither the extractor nor the cleaner; after a failed extraction the result
\* carries the model's answer and nothing was cleaned, assembled or saved.
C7_HaltsAtFirstFailure ==
    /\ (ocr_result # Idle /\ ~ocr_result.success) =>
          /\ pc = "done"
          /\ result.success = FALSE /\ result.step = "OCR"
          /\ Called = {"extract_text_from_image"}
    /\ (classification_result # Idle /\ ~classification_result.success) =>
          /\ pc = "done"
          /\ result.success = FALSE /\ result.step = "Classification"
          /\ Called \cap {"extract_json_from_response", "clean_business_card_data",
                          "create_final_result", "save_result"} = {}
    /\ (json_result # Idle /\ ~json_result.success) =>
          /\ pc = "done"
          /\ result.success = FALSE /\ result.step = "JSON Parsing"
          /\ result.raw_response = classification_result.raw_response
          /\ Called \cap {"clean_business_card_data", "create_final_result",
                          "save_result"} = {}
    /\ pc = "done" => ~ENABLED Next

\* C7 witness: the extraction failed on an answer with an unclosed fence
C7_Witness ==
    /\ pc = "done"
    /\ json_result # Idle /\ ~json_result.success
    /\ result.step = "JSON Parsing"
    /\ result.raw_response = PyStr(FenceJson \o <<"\n">> \o <<"{", "\"", "n", "a", "m", "e", "\"", ":", " ", "\"", "K", "i", "m", "\"">>)
    /\ "save_ocr_results" \in Called

C7_WitnessOcr ==
    pc = "done" /\ ~ocr_result.success /\ result.step = "OCR" /\ Len(calls) = 1

C7_WitnessClassification ==
    pc = "done" /\ classification_result # Idle /\ ~classification_result.success
        /\ result.step = "Classification"

\* C8 as stated: no stage raises; whatever text the model answers with, the
\* run ends with a result that has a success flag.
C8_NoStageRaises ==
    /\ pc # "raised"
    /\ pc = "done" => result.success \in BOOLEAN

\* C9 as stated: once OCR, classification and extraction have succeeded, the
\* run returns success with the record assembled from the cleaned data, whether
\* the saves succeeded, failed or were skipped.
C9_StorageNeverMatters ==
    (/\ pc \in {"done", "raised"}
     /\ ocr_result # Idle /\ ocr_result.success
     /\ classification_result # Idle /\ classification_result.success
     /\ json_result # Idle /\ json_result.success) =>
        /\ pc = "done"
        /\ result.success = TRUE
        /\ result.data = final_result
        /\ clean_business_card_data(json_result.data).exc = "none"
        /\ final_result = create_final_result(clean_business_card_data(json_result.data).value,
                                              arg.card_id, arg.image_path, PyNone)

\* what does hold: when the answer is a JSON object, the result is the same
\* success whatever the saves did
StorageNeverMattersForObjects ==
    (/\ pc \in {"done", "raised"}
     /\ json_result # Idle /\ json_result.success
     /\ json_result.data.t = "dict") =>
        /\ pc = "done"
        /\ result = SuccessResult(
               create_final_result(clean_business_card_data(json_result.data).value,
                                   arg.card_id, arg.image_path, PyNone),
               ocr_result.extracted_text)

---------------------------------------------------------------------------
(* Claims about the text fields, under SpecClean.                          *)

\* the fields that are neither phone, fax nor email
TextFields == {K_name, K_social_id, K_position, K_company, K_address}

\* a raw value that is neither null nor empty: "", [] and {} are empty
NotEmpty(v) == v \notin {PyNone, PyStr(<<>>), PyList(<<>>), PyDict(<<>>)}

\* the trimmed string form of a raw value is non-empty and no absent word
StringFormKept(v) ==
    /\ Strip(StrOf(v)) # <<>>
    /\ Lower(Strip(StrOf(v))) \notin AbsentWords

\* C11: in every field other than phone, fax and email, a selected raw value
\* that is neither null nor empty is cleaned to its trimmed string form when
\* that form is non-empty and no absent word; the numbers 0 and 123 and the
\* boolean false are coerced to their string form, not dropped.
C11_CoercedNotDropped ==
    pc = "cleaned" =>
        \A i \in 1..Len(field_mapping) :
            LET field == field_mapping[i][1]
                raw == PriorityRaw(field_mapping[i][2])
            IN  (field \in TextFields /\ NotEmpty(raw) /\ StringFormKept(raw))
                    => CleanedOf(field) = PyStr(Strip(StrOf(raw)))

\* the same for the raw values that are true at line 79: every string but "",
\* every number but 0, True, and the lists and dicts that hold something
CoercedWhenTruthy ==
    pc = "cleaned" =>
        \A i \in 1..Len(field_mapping) :
            LET field == field_mapping[i][1]
                raw == PriorityRaw(field_mapping[i][2])
            IN  (field \in TextFields /\ Truthy(raw) /\ StringFormKept(raw))
                    => CleanedOf(field) = PyStr(Strip(StrOf(raw)))

\* 123 is coerced to "123"
CoercedNumberReached ==
    /\ pc = "cleaned"
    /\ arg = PyDict(<<<<K_company, PyInt(123)>>>>)
    /\ CleanedOf(K_company) = PyStr(<<"1", "2", "3">>)

\* 0 and False are dropped
DroppedZeroReached ==
    /\ pc = "cleaned"
    /\ arg = PyDict(<<<<K_company, PyInt(0)>>>>)
    /\ CleanedOf(K_company) = PyNone

DroppedFalseReached ==
    /\ pc = "cleaned"
    /\ arg = PyDict(<<<<K_name, PyBool(FALSE)>>>>)
    /\ CleanedOf(K_name) = PyNone

---------------------------------------------------------------------------
(* The cleaner on its own output: clean_business_card_data called on a      *)
(* candidate mapping and then on the mapping that call returned.            *)

\* the second call, on the mapping the first call returned
CleanAgain ==
    /\ pc = "cleaned"
    /\ ret.exc = "none"
    /\ cleaned_data' = clean_business_card_data(ret.value)
    /\ pc' = "recleaned"
    /\ UNCHANGED <<arg, ret, ocr_result, classification_result, json_result,
                   final_result, result, calls>>

NextReclean == CleanCall \/ CleanAgain

SpecReclean == InitClean /\ [][NextReclean]_vars

\* the value of a field in the mapping the second call returned
RecleanedOf(field) == DictGet(cleaned_data.value.o, field)

\* C12: cleaning the cleaned mapping gives the cleaned mapping back; no field
\* holds a value, not even a phone left by the stripping such as "-", that the
\* second call turns into None or changes.
C12_Idempotent ==
    pc = "recleaned" =>
        /\ cleaned_data = ret
        /\ \A i \in 1..Len(field_mapping) :
              RecleanedOf(field_mapping[i][1]) = CleanedOf(field_mapping[i][1])

\* the same when the first call did not leave "-" as the phone
IdempotentButHyphenPhone ==
    (pc = "recleaned" /\ CleanedOf(K_phone) # PyStr(<<"-">>)) => cleaned_data = ret

\* a phone that the first call strips to "-" and the second call drops
HyphenPhoneDropped ==
    /\ pc = "recleaned"
    /\ arg = PyDict(<<<<K_phone, PyStr(<<"T", "-">>)>>>>)
    /\ CleanedOf(K_phone) = PyStr(<<"-">>)
    /\ RecleanedOf(K_phone) = PyNone

\* a phone and an email that the second call gives back
RecleanedSame ==
    /\ pc = "recleaned"
    /\ CleanedOf(K_phone) = PyStr(<<"0", "1", "0", "-", "1", "2", "3", "4", "-", "5", "6", "7", "8">>)
    /\ CleanedOf(K_email) = PyStr(<<"t", "e", "s", "t", "@", "e", "x", "a", "m", "p", "l", "e", ".", "c", "o", "m">>)
    /\ cleaned_data = ret

===========================================================================
